---- MODULE Spec2Model ----
(***************************************************************************)
(* Model of the datos token layer: the wallet-side coin selection of       *)
(* src/src/token/wallet.cpp (FundMintTransaction, FundTokenTransaction)    *)
(* and the consensus validator declared in src/src/token/verify.h.         *)
(* Further sections: the balance aggregator and the transaction signer of  *)
(* wallet.cpp, mempool acceptance, class CToken of src/src/token/token.h,  *)
(* and class CNodeBehavior of src/src/storage/behavior.cpp.                *)
(***************************************************************************)
EXTENDS Integers, Sequences, FiniteSets, TLC

\* ------------------------------------------------------------------------
\* Program constants (src/src/token/token.h)
\* ------------------------------------------------------------------------
TOKEN_MINCONFS == 1
TOKENNAME_MINLEN == 3
TOKENNAME_MAXLEN == 12

\* ------------------------------------------------------------------------
\* Bounds of the model
\* ------------------------------------------------------------------------
MaxOuts == 2      \* wallet outputs enumerated by one funding call
MaxTarget == 2    \* largest amountMin asked for
MaxHeight == 3    \* blocks on the active chain

\* ------------------------------------------------------------------------
\* Scripts.  A scriptPubKey is known to the wallet code only through
\* IsPayToToken / IsChecksumData / BuildTokenFromScript, so a script is its
\* template tag, whether its token payload parses, and the name it carries.
\* ------------------------------------------------------------------------
TokenNames == {"GOLD", "SILVER"}

PlainScript == [tag |-> "plain", wellformed |-> TRUE, name |-> ""]
ChecksumScript == [tag |-> "checksum", wellformed |-> TRUE, name |-> ""]
MalformedTokenScript == [tag |-> "token", wellformed |-> FALSE, name |-> ""]
TokenScript(nm) == [tag |-> "token", wellformed |-> TRUE, name |-> nm]

Scripts ==
    {PlainScript, ChecksumScript, MalformedTokenScript}
        \cup {TokenScript(nm) : nm \in TokenNames}

IsPayToToken(pk) == pk.tag = "token"
IsChecksumData(pk) == pk.tag = "checksum"

\* BuildTokenFromScript(pk, token): FALSE when the script does not decode,
\* otherwise the decoded token (only getName() is read by the wallet).
BuildTokenFromScript(pk) ==
    IF pk.tag = "token" /\ pk.wellformed
    THEN [ok |-> TRUE, name |-> pk.name]
    ELSE [ok |-> FALSE, name |-> ""]

\* ------------------------------------------------------------------------
\* Wallet outputs.  wallet[i] is the i-th (transaction, vout index) pair in
\* the order the nested loops of a funding call enumerate them; i stands for
\* COutPoint(txHash, n).  Each output carries what the wallet helpers report
\* for it.
\* ------------------------------------------------------------------------
CleanStatus(c) ==
    [inMempool |-> FALSE, unspent |-> TRUE, mine |-> TRUE, confs |-> c, outInMempool |-> FALSE]

\* The ways an output fails one helper test, and a deeper clean one.  A
\* transaction still in the mempool has no confirmations.
OtherStatuses ==
    {CleanStatus(TOKEN_MINCONFS),
     CleanStatus(TOKEN_MINCONFS + 2),
     [CleanStatus(0) EXCEPT !.inMempool = TRUE],
     [CleanStatus(TOKEN_MINCONFS + 1) EXCEPT !.unspent = FALSE],
     [CleanStatus(TOKEN_MINCONFS + 1) EXCEPT !.mine = FALSE],
     [CleanStatus(TOKEN_MINCONFS + 1) EXCEPT !.outInMempool = TRUE]}

Values == {1, 2}

Output(v, pk, s) ==
    [value |-> v, script |-> pk, inMempool |-> s.inMempool, unspent |-> s.unspent,
     mine |-> s.mine, confs |-> s.confs, outInMempool |-> s.outInMempool]

\* Every script and value on an output with TOKEN_MINCONFS + 1 confirmations
\* that passes every helper test, and every other status on a plain and on
\* a token output.
Outputs ==
    {Output(v, pk, CleanStatus(TOKEN_MINCONFS + 1)) : v \in Values, pk \in Scripts}
        \cup {Output(1, pk, s) : pk \in {PlainScript, TokenScript("GOLD")}, s \in OtherStatuses}

Wallets == UNION {[1..n -> Outputs] : n \in 0..MaxOuts}

IsInMempool(out) == out.inMempool
IsOutputUnspent(out) == out.unspent
IsMine(out) == out.mine
GetUTXOConfirmations(out) == out.confs
IsOutputInMempool(out) == out.outInMempool
IsTokenOutput(out) == IsPayToToken(out.script)

VARIABLES
    wallet,     \* the wallet's outputs in enumeration order
    call,       \* the last funding call: its arguments and what it returned
    prev,       \* the funding call before it: what it selected
    chain,      \* the active chain: chain[h] is the token transaction of block h
    issuances,  \* the uniqueness bookkeeping: the (uid, name) claims recorded
    verdict,    \* the last validator operation and its result
    pool,       \* the mempool handed to the balance aggregator: its transactions
    bal,        \* the last GetUnconfirmedTokenBalance call and what it returned
    coins,      \* the chain-state and mempool overlay: the status of each outpoint
    signer,     \* the SignTokenTransaction call in progress
    held,       \* the locks the signing thread holds
    txpool,     \* the token transactions in the mempool
    acceptors,  \* the acceptance attempts in progress
    poolLock,   \* who holds the mempool lock in the acceptance path
    poolId,     \* which CTxMemPool object the balance aggregator is handed
    tokens,     \* the CToken objects under construction
    cmp,        \* the last operator== evaluation and its result
    nodes,      \* CNodeBehavior::nodes
    seen,       \* CNodeBehavior::seen
    activeChain,\* the netProof of each block of the active chain
    lastOp      \* the last CNodeBehavior operation, with the state it started from

walletVars == <<wallet, call, prev>>
tokenVars == <<chain, issuances, verdict>>
balanceVars == <<pool, poolId, bal>>
recordVars == <<tokens, cmp>>
nodeVars == <<nodes, seen, activeChain, lastOp>>
signVars == <<coins, signer, held>>
acceptVars == <<txpool, acceptors, poolLock>>
vars ==
    <<wallet, call, prev, chain, issuances, verdict, pool, bal, coins, signer, held,
      txpool, acceptors, poolLock, poolId, tokens, cmp, nodes, seen, activeChain, lastOp>>

NoCall ==
    [op |-> "none", tokenname |-> "", amountMin |-> 0, retIn |-> <<>>,
     ok |-> FALSE, amountFound |-> 0, ret |-> <<>>]

NoPrev == [op |-> "none", tokenname |-> "", sel |-> {}, accepted |-> FALSE]

NoBalances == [nm \in TokenNames |-> 0]

NoBal ==
    [op |-> "none", balancesIn |-> NoBalances, ok |-> FALSE, strError |-> "",
     balances |-> NoBalances, locked |-> "", read |-> ""]

NoSigner ==
    [pc |-> "idle", vin |-> <<>>, i |-> 0, loaded |-> <<>>, sigs |-> <<>>, ok |-> FALSE,
     strError |-> ""]

NoAcceptors == <<>>

NoCmp == [op |-> "none", result |-> FALSE]

NoOp == [op |-> "none", height |-> 0]

\* ------------------------------------------------------------------------
\* CWallet::FundMintTransaction (wallet.cpp 16-60)
\* ------------------------------------------------------------------------
\* Mutants of the mint scan, each a slip the code could have made.
MintTakesChecksum(pk) == ~IsPayToToken(pk)

RECURSIVE MintLoopOffByOne(_, _, _, _, _)
MintLoopOffByOne(w, i, amountMin, amountFound, ret) ==
    IF i > Len(w)
    THEN [ok |-> FALSE, amountFound |-> amountFound, ret |-> ret]
    ELSE IF w[i].inMempool \/ ~w[i].unspent \/ ~w[i].mine \/ w[i].confs < TOKEN_MINCONFS + 1
            \/ w[i].outInMempool \/ w[i].script.tag # "plain"
    THEN MintLoopOffByOne(w, i + 1, amountMin, amountFound, ret)
    ELSE IF amountFound + w[i].value >= amountMin - 1
    THEN [ok |-> TRUE, amountFound |-> amountFound + w[i].value, ret |-> Append(ret, i)]
    ELSE MintLoopOffByOne(w, i + 1, amountMin, amountFound + w[i].value, Append(ret, i))

RECURSIVE MintLoopStrict(_, _, _, _, _)
MintLoopStrict(w, i, amountMin, amountFound, ret) ==
    IF i > Len(w)
    THEN [ok |-> FALSE, amountFound |-> amountFound, ret |-> ret]
    ELSE IF w[i].inMempool \/ ~w[i].unspent \/ ~w[i].mine \/ w[i].confs < TOKEN_MINCONFS + 1
            \/ w[i].outInMempool \/ w[i].script.tag # "plain"
    THEN MintLoopStrict(w, i + 1, amountMin, amountFound, ret)
    ELSE IF amountFound + w[i].value > amountMin
    THEN [ok |-> TRUE, amountFound |-> amountFound + w[i].value, ret |-> Append(ret, i)]
    ELSE MintLoopStrict(w, i + 1, amountMin, amountFound + w[i].value, Append(ret, i))

\* The threshold is tested only once the scan is over.
RECURSIVE MintLoopNoEarlyReturn(_, _, _, _, _)
MintLoopNoEarlyReturn(w, i, amountMin, amountFound, ret) ==
    IF i > Len(w)
    THEN [ok |-> ret # <<>> /\ amountFound >= amountMin, amountFound |-> amountFound, ret |-> ret]
    ELSE IF w[i].inMempool \/ ~w[i].unspent \/ ~w[i].mine \/ w[i].confs < TOKEN_MINCONFS + 1
            \/ w[i].outInMempool \/ w[i].script.tag # "plain"
    THEN MintLoopNoEarlyReturn(w, i + 1, amountMin, amountFound, ret)
    ELSE MintLoopNoEarlyReturn(w, i + 1, amountMin, amountFound + w[i].value, Append(ret, i))

\* The `continue` chain of lines 32-46.
MintSkips(out) ==
    \/ IsInMempool(out)
    \/ ~IsOutputUnspent(out)
    \/ ~IsMine(out)
    \/ GetUTXOConfirmations(out) < TOKEN_MINCONFS + 1
    \/ IsOutputInMempool(out)

\* Line 49.
MintTakes(pk) == ~IsPayToToken(pk) /\ ~IsChecksumData(pk)

RECURSIVE MintLoop(_, _, _, _, _)
MintLoop(w, i, amountMin, amountFound, ret) ==
    IF i > Len(w)
    THEN [ok |-> FALSE, amountFound |-> amountFound, ret |-> ret]
    ELSE IF MintSkips(w[i]) \/ ~MintTakes(w[i].script)
    THEN MintLoop(w, i + 1, amountMin, amountFound, ret)
    ELSE IF amountFound + w[i].value >= amountMin
    THEN [ok |-> TRUE, amountFound |-> amountFound + w[i].value, ret |-> Append(ret, i)]
    ELSE MintLoop(w, i + 1, amountMin, amountFound + w[i].value, Append(ret, i))

\* amountFound = 0 on entry; ret is the caller's vector and is not cleared.
\* spendableTx is an unordered set: w is the order this call enumerates it in.
FundMintTransaction(w, amountMin, ret) == MintLoop(w, 1, amountMin, 0, ret)

\* ------------------------------------------------------------------------
\* CWallet::FundTokenTransaction (wallet.cpp 62-122)
\* ------------------------------------------------------------------------
\* Mutants of the token scan.
TokenSkipsBelowMinConfs(out) ==
    \/ ~IsTokenOutput(out)
    \/ IsInMempool(out)
    \/ ~IsOutputUnspent(out)
    \/ ~IsMine(out)
    \/ GetUTXOConfirmations(out) < TOKEN_MINCONFS
    \/ IsOutputInMempool(out)

TokenSkipsNotPending(out) ==
    \/ ~IsTokenOutput(out)
    \/ IsInMempool(out)
    \/ ~IsOutputUnspent(out)
    \/ ~IsMine(out)
    \/ GetUTXOConfirmations(out) < TOKEN_MINCONFS + 1

TokenTakesAnyName(pk, tokenname) ==
    /\ ~IsChecksumData(pk)
    /\ BuildTokenFromScript(pk).ok

\* The `continue` chain of lines 78-101.
TokenSkips(out) ==
    \/ ~IsTokenOutput(out)
    \/ IsInMempool(out)
    \/ ~IsOutputUnspent(out)
    \/ ~IsMine(out)
    \/ GetUTXOConfirmations(out) < TOKEN_MINCONFS + 1
    \/ IsOutputInMempool(out)

\* Lines 104-110: not checksum data, decodes, and carries the asked name.
TokenTakes(pk, tokenname) ==
    /\ ~IsChecksumData(pk)
    /\ BuildTokenFromScript(pk).ok
    /\ tokenname = BuildTokenFromScript(pk).name

RECURSIVE TokenLoop(_, _, _, _, _, _)
TokenLoop(w, i, tokenname, amountMin, amountFound, ret) ==
    IF i > Len(w)
    THEN [ok |-> FALSE, amountFound |-> amountFound, ret |-> ret]
    ELSE IF TokenSkips(w[i]) \/ ~TokenTakes(w[i].script, tokenname)
    THEN TokenLoop(w, i + 1, tokenname, amountMin, amountFound, ret)
    ELSE IF amountFound + w[i].value >= amountMin
    THEN [ok |-> TRUE, amountFound |-> amountFound + w[i].value, ret |-> Append(ret, i)]
    ELSE TokenLoop(w, i + 1, tokenname, amountMin, amountFound + w[i].value, Append(ret, i))

FundTokenTransaction(w, tokenname, amountMin, ret) ==
    TokenLoop(w, 1, tokenname, amountMin, 0, ret)

\* ------------------------------------------------------------------------
\* Consensus validator (declared in src/src/token/verify.h; its bodies are
\* not part of the sources at hand and follow the design document)
\* ------------------------------------------------------------------------
Uids == {1, 2}

\* "AU" is shorter than TOKENNAME_MINLEN.
SubmittedNames == TokenNames \cup {"AU"}

\* A token transaction: the token its output carries and, for a transfer,
\* the outpoint it spends (the height of the block holding that output).
IssuanceTxs ==
    {[type |-> "ISSUANCE", uid |-> u, name |-> nm, prevout |-> 0] :
        u \in Uids, nm \in SubmittedNames}

TransferTxs ==
    {[type |-> "TRANSFER", uid |-> u, name |-> nm, prevout |-> h] :
        u \in Uids, nm \in TokenNames, h \in 1..MaxHeight}

NoTx == [type |-> "NONE", uid |-> 0, name |-> "", prevout |-> 0]

NoVerdict ==
    [op |-> "none", tx |-> NoTx, onlyCheck |-> FALSE, height |-> 0, ok |-> FALSE, error |-> ""]

Accept == [ok |-> TRUE, error |-> ""]
Reject(reason) == [ok |-> FALSE, error |-> reason]

\* view.AccessCoin(prevout): the token output of block h, spent once a later
\* transfer on the chain refers to it.
IsSpent(c, h) ==
    \/ h \notin 1..Len(c)
    \/ \E k \in 1..Len(c) : c[k].type = "TRANSFER" /\ c[k].prevout = h

\* ContextualCheckToken: the structural rules on the decoded token.
ContextualCheckToken(tx) ==
    IF Len(tx.name) < TOKENNAME_MINLEN \/ Len(tx.name) > TOKENNAME_MAXLEN
    THEN Reject("NameLengthInvalid")
    ELSE IF tx.type \notin {"ISSUANCE", "TRANSFER"}
    THEN Reject("MalformedScript")
    ELSE Accept

\* FindLastTokenUse(name, TokenSpend, lastHeight, params): scans backwards
\* from lastHeight; the height of the most recent output holding the name,
\* 0 when there is none.
RECURSIVE FindLastTokenUse(_, _, _)
FindLastTokenUse(c, nm, lastHeight) ==
    IF lastHeight < 1 THEN 0
    ELSE IF c[lastHeight].name = nm THEN lastHeight
    ELSE FindLastTokenUse(c, nm, lastHeight - 1)

\* A mutant: the claim is recorded whatever onlyCheck says.
CheckTokenIssuanceAlwaysRecords(claims, tx, onlyCheck) ==
    IF ~ContextualCheckToken(tx).ok
    THEN [ok |-> FALSE, error |-> ContextualCheckToken(tx).error, claims |-> claims]
    ELSE IF \E cl \in claims : cl.name = tx.name
    THEN [ok |-> FALSE, error |-> "NameAlreadyIssued", claims |-> claims]
    ELSE [ok |-> TRUE, error |-> "", claims |-> claims \cup {[uid |-> tx.uid, name |-> tx.name]}]

\* CheckTokenIssuance(tx, strError, onlyCheck): the issuance in isolation and
\* against the claims recorded; records its claim unless onlyCheck.
CheckTokenIssuance(claims, tx, onlyCheck) ==
    IF ~ContextualCheckToken(tx).ok
    THEN [ok |-> FALSE, error |-> ContextualCheckToken(tx).error, claims |-> claims]
    ELSE IF \E cl \in claims : cl.name = tx.name
    THEN [ok |-> FALSE, error |-> "NameAlreadyIssued", claims |-> claims]
    ELSE [ok |-> TRUE, error |-> "",
          claims |-> IF onlyCheck THEN claims
                     ELSE claims \cup {[uid |-> tx.uid, name |-> tx.name]}]

\* A mutant: only the name of the spent token is compared.
CheckTokenInputsNameOnly(c, tx) ==
    IF IsSpent(c, tx.prevout)
    THEN Reject("InputNotFoundOrSpent")
    ELSE IF c[tx.prevout].name # tx.name
    THEN Reject("IdentityMismatch")
    ELSE Accept

\* CheckTokenInputs(tx, pindex, view, strError): the input a transfer spends
\* carries the (uid, name) of the transfer's output.
CheckTokenInputs(c, tx) ==
    IF IsSpent(c, tx.prevout)
    THEN Reject("InputNotFoundOrSpent")
    ELSE IF c[tx.prevout].uid # tx.uid \/ c[tx.prevout].name # tx.name
    THEN Reject("IdentityMismatch")
    ELSE Accept

\* A mutant: undoing an issuance leaves the bookkeeping as it was.
UndoTokenIssuanceKeeps(claims, id, nm) == claims

\* A mutant: undoing an issuance drops every claim.
UndoTokenIssuanceClears(claims, id, nm) == {}

\* UndoTokenIssuance(id, name): releases the claim.
UndoTokenIssuance(claims, id, nm) == claims \ {[uid |-> id, name |-> nm]}

\* UndoTokenIssuancesInBlock(block): releases the claim of every issuance of
\* the block.
UndoTokenIssuancesInBlock(claims, tx) ==
    IF tx.type = "ISSUANCE" THEN UndoTokenIssuance(claims, tx.uid, tx.name) ELSE claims

\* A mutant: the dispatch validates transfers only and lets an issuance
\* through on its structure.
CheckTokenTransfersOnly(c, claims, tx, onlyCheck) ==
    IF ~ContextualCheckToken(tx).ok
    THEN [ok |-> FALSE, error |-> ContextualCheckToken(tx).error, claims |-> claims]
    ELSE IF tx.type = "ISSUANCE"
    THEN [ok |-> TRUE, error |-> "",
          claims |-> IF onlyCheck THEN claims
                     ELSE claims \cup {[uid |-> tx.uid, name |-> tx.name]}]
    ELSE IF ~CheckTokenInputs(c, tx).ok
    THEN [ok |-> FALSE, error |-> CheckTokenInputs(c, tx).error, claims |-> claims]
    ELSE [ok |-> TRUE, error |-> "", claims |-> claims]

\* CheckToken(tx, pindex, view, strError, params, onlyCheck): the dispatch.
\* An issuance must find no earlier use of its name; a transfer must spend
\* the lineage head of its name, confirmed at least TOKEN_MINCONFS deep.
CheckToken(c, claims, tx, onlyCheck) ==
    IF tx.type = "ISSUANCE"
    THEN IF ContextualCheckToken(tx).ok /\ FindLastTokenUse(c, tx.name, Len(c)) # 0
         THEN [ok |-> FALSE, error |-> "NameAlreadyIssued", claims |-> claims]
         ELSE CheckTokenIssuance(claims, tx, onlyCheck)
    ELSE IF ~ContextualCheckToken(tx).ok
    THEN [ok |-> FALSE, error |-> ContextualCheckToken(tx).error, claims |-> claims]
    ELSE IF ~CheckTokenInputs(c, tx).ok
    THEN [ok |-> FALSE, error |-> CheckTokenInputs(c, tx).error, claims |-> claims]
    ELSE IF FindLastTokenUse(c, tx.name, Len(c)) # tx.prevout
    THEN [ok |-> FALSE, error |-> "IdentityMismatch", claims |-> claims]
    ELSE IF Len(c) - tx.prevout + 1 < TOKEN_MINCONFS
    THEN [ok |-> FALSE, error |-> "InsufficientConfirmations", claims |-> claims]
    ELSE [ok |-> TRUE, error |-> "", claims |-> claims]

\* ------------------------------------------------------------------------
\* The wallet as a state machine
\* ------------------------------------------------------------------------
\* The outpoints a call pushed onto ret (ret minus what the caller passed in).
Sel(c) == {c.ret[k] : k \in (Len(c.retIn) + 1)..Len(c.ret)}

\* What is remembered of a successful token funding call made with a fresh
\* vector when the next thing happens.
Summary(c) ==
    IF c.op = "FundTokenTransaction" /\ c.ok /\ c.retIn = <<>>
    THEN [op |-> c.op, tokenname |-> c.tokenname, sel |-> Sel(c), accepted |-> FALSE]
    ELSE NoPrev

\* The call before the one being made: the last call, or the one whose
\* transaction the mempool has just taken.
Before == IF call.op = "none" THEN prev ELSE Summary(call)

\* The caller's vector: a fresh one, or the one filled by the call before
\* (itself made with a fresh vector).
RetArgs == {<<>>} \cup (IF call.op # "none" /\ call.retIn = <<>> THEN {call.ret} ELSE {})

\* The components a specification leaves alone start, and stay, idle.
WalletIdle == wallet = <<>> /\ call = NoCall /\ prev = NoPrev
TokenIdle == chain = <<>> /\ issuances = {} /\ verdict = NoVerdict
BalanceIdle == pool = <<>> /\ poolId = "mempool" /\ bal = NoBal
SignIdle == coins = <<>> /\ signer = NoSigner /\ held = {}
AcceptIdle == txpool = {} /\ acceptors = NoAcceptors /\ poolLock = 0
RecordIdle == tokens = <<>> /\ cmp = NoCmp
NodeIdle == nodes = <<>> /\ seen = {} /\ activeChain = <<>> /\ lastOp = NoOp

WalletInit ==
    /\ wallet \in Wallets
    /\ call = NoCall
    /\ prev = NoPrev
    /\ TokenIdle
    /\ BalanceIdle
    /\ SignIdle
    /\ AcceptIdle
    /\ RecordIdle
    /\ NodeIdle

CallFundMint(rets) ==
    \E amountMin \in 0..MaxTarget, ret \in rets :
        LET r == FundMintTransaction(wallet, amountMin, ret) IN
        /\ call' = [op |-> "FundMintTransaction", tokenname |-> "", amountMin |-> amountMin,
                    retIn |-> ret, ok |-> r.ok, amountFound |-> r.amountFound, ret |-> r.ret]
        /\ UNCHANGED wallet

CallFundToken(rets) ==
    \E tokenname \in TokenNames, amountMin \in 0..MaxTarget, ret \in rets :
        LET r == FundTokenTransaction(wallet, tokenname, amountMin, ret) IN
        /\ call' = [op |-> "FundTokenTransaction", tokenname |-> tokenname,
                    amountMin |-> amountMin, retIn |-> ret, ok |-> r.ok,
                    amountFound |-> r.amountFound, ret |-> r.ret]
        /\ UNCHANGED wallet

\* The transaction built from a successful call's inputs enters the mempool:
\* every outpoint it spends is now referenced by a pending mempool transaction.
AcceptToMemoryPool ==
    /\ call.ok
    /\ call.retIn = <<>>
    /\ wallet' = [i \in 1..Len(wallet) |->
                    IF i \in Sel(call) THEN [wallet[i] EXCEPT !.outInMempool = TRUE]
                    ELSE wallet[i]]
    /\ prev' = [Summary(call) EXCEPT !.accepted = TRUE]
    /\ call' = NoCall

\* Funding calls against one wallet snapshot.
WalletNext ==
    \/ CallFundMint(RetArgs) /\ UNCHANGED <<prev, tokenVars, balanceVars, signVars, acceptVars, recordVars, nodeVars>>
    \/ CallFundToken(RetArgs) /\ UNCHANGED <<prev, tokenVars, balanceVars, signVars, acceptVars, recordVars, nodeVars>>

SpecWallet == WalletInit /\ [][WalletNext]_vars

\* Token funding calls in sequence, with the mempool taking the transaction
\* of a successful call in between or not.
FundingNext ==
    \/ /\ CallFundToken({<<>>})
       /\ prev' = Before
       /\ UNCHANGED <<tokenVars, balanceVars, signVars, acceptVars, recordVars, nodeVars>>
    \/ AcceptToMemoryPool /\ UNCHANGED <<tokenVars, balanceVars, signVars, acceptVars, recordVars, nodeVars>>

SpecFunding == WalletInit /\ [][FundingNext]_vars

\* ------------------------------------------------------------------------
\* The validator as a state machine: the block-index manager connects and
\* disconnects blocks, mempool acceptance pre-checks transactions.
\* ------------------------------------------------------------------------
TokenTxs == IssuanceTxs \cup TransferTxs

TokenInit ==
    /\ WalletIdle
    /\ chain = <<>>
    /\ issuances = {}
    /\ verdict = NoVerdict
    /\ BalanceIdle
    /\ SignIdle
    /\ AcceptIdle
    /\ RecordIdle
    /\ NodeIdle

\* A pre-check: CheckToken with onlyCheck = true.
PreCheck ==
    \E tx \in TokenTxs :
        LET r == CheckToken(chain, issuances, tx, TRUE) IN
        /\ verdict' = [op |-> "CheckToken", tx |-> tx, onlyCheck |-> TRUE,
                       height |-> Len(chain), ok |-> r.ok, error |-> r.error]
        /\ issuances' = r.claims
        /\ UNCHANGED chain

\* Block connection: CheckToken with onlyCheck = false; a rejected
\* transaction rejects the block.
ConnectBlock ==
    /\ Len(chain) < MaxHeight
    /\ \E tx \in TokenTxs :
        LET r == CheckToken(chain, issuances, tx, FALSE) IN
        /\ verdict' = [op |-> "ConnectBlock", tx |-> tx, onlyCheck |-> FALSE,
                       height |-> Len(chain), ok |-> r.ok, error |-> r.error]
        /\ issuances' = r.claims
        /\ chain' = IF r.ok THEN Append(chain, tx) ELSE chain

\* Block disconnection: UndoTokenIssuancesInBlock on the tip.
DisconnectBlock ==
    /\ Len(chain) > 0
    /\ verdict' = [op |-> "DisconnectBlock", tx |-> chain[Len(chain)], onlyCheck |-> FALSE,
                   height |-> Len(chain), ok |-> TRUE, error |-> ""]
    /\ issuances' = UndoTokenIssuancesInBlock(issuances, chain[Len(chain)])
    /\ chain' = SubSeq(chain, 1, Len(chain) - 1)

\* A pre-check of an issuance in isolation: CheckTokenIssuance with
\* onlyCheck = true.
PreCheckIssuance ==
    \E tx \in IssuanceTxs :
        LET r == CheckTokenIssuance(issuances, tx, TRUE) IN
        /\ verdict' = [op |-> "CheckTokenIssuance", tx |-> tx, onlyCheck |-> TRUE,
                       height |-> Len(chain), ok |-> r.ok, error |-> r.error]
        /\ issuances' = r.claims
        /\ UNCHANGED chain

\* The undo of the block just disconnected is run once more.
UndoAgain ==
    /\ verdict.op \in {"DisconnectBlock", "UndoTokenIssuancesInBlock"}
    /\ verdict' = [verdict EXCEPT !.op = "UndoTokenIssuancesInBlock"]
    /\ issuances' = UndoTokenIssuancesInBlock(issuances, verdict.tx)
    /\ UNCHANGED chain

\* The undo of an issuance whose claim was never recorded: the block that
\* carried it was rejected at connection.
UndoUnrecorded ==
    /\ verdict.op = "ConnectBlock"
    /\ ~verdict.ok
    /\ verdict.tx.type = "ISSUANCE"
    /\ [uid |-> verdict.tx.uid, name |-> verdict.tx.name] \notin issuances
    /\ verdict' = [verdict EXCEPT !.op = "UndoTokenIssuance"]
    /\ issuances' = UndoTokenIssuance(issuances, verdict.tx.uid, verdict.tx.name)
    /\ UNCHANGED chain

CallCheckTokenInputs ==
    \E tx \in TransferTxs :
        /\ verdict' = [op |-> "CheckTokenInputs", tx |-> tx, onlyCheck |-> TRUE,
                       height |-> Len(chain), ok |-> CheckTokenInputs(chain, tx).ok,
                       error |-> CheckTokenInputs(chain, tx).error]
        /\ UNCHANGED <<chain, issuances>>

TokenNext ==
    \/ PreCheck /\ UNCHANGED <<walletVars, balanceVars, signVars, acceptVars, recordVars, nodeVars>>
    \/ ConnectBlock /\ UNCHANGED <<walletVars, balanceVars, signVars, acceptVars, recordVars, nodeVars>>
    \/ DisconnectBlock /\ UNCHANGED <<walletVars, balanceVars, signVars, acceptVars, recordVars, nodeVars>>
    \/ CallCheckTokenInputs /\ UNCHANGED <<walletVars, balanceVars, signVars, acceptVars, recordVars, nodeVars>>
    \/ PreCheckIssuance /\ UNCHANGED <<walletVars, balanceVars, signVars, acceptVars, recordVars, nodeVars>>
    \/ UndoAgain /\ UNCHANGED <<walletVars, balanceVars, signVars, acceptVars, recordVars, nodeVars>>
    \/ UndoUnrecorded /\ UNCHANGED <<walletVars, balanceVars, signVars, acceptVars, recordVars, nodeVars>>

SpecToken == TokenInit /\ [][TokenNext]_vars

\* ------------------------------------------------------------------------
\* Properties of the validator
\* ------------------------------------------------------------------------
LiveIssuances(nm, upTo) ==
    {h \in 1..upTo : chain[h].type = "ISSUANCE" /\ chain[h].name = nm}

\* C1: at most one live issuance of a name is on the chain, and an issuance
\* of a name that already has a live issuance at or below the height it is
\* submitted at is rejected with NameAlreadyIssued.
C1_NameUniqueness ==
    /\ \A nm \in SubmittedNames : Cardinality(LiveIssuances(nm, Len(chain))) <= 1
    /\ (/\ verdict.op \in {"CheckToken", "ConnectBlock"}
        /\ verdict.tx.type = "ISSUANCE"
        /\ LiveIssuances(verdict.tx.name, verdict.height) # {}) =>
            ~verdict.ok /\ verdict.error = "NameAlreadyIssued"

C1_Witness ==
    /\ verdict.op = "ConnectBlock"
    /\ verdict.tx.type = "ISSUANCE"
    /\ verdict.error = "NameAlreadyIssued"
    /\ verdict.height >= 2
    /\ LiveIssuances(verdict.tx.name, 1) # {}

\* C2: once the block that issued a name has been disconnected,
\* FindLastTokenUse reports no use of the name and the name can be issued
\* again.
C2_ReorgSafety ==
    (verdict.op = "DisconnectBlock" /\ verdict.tx.type = "ISSUANCE") =>
        /\ FindLastTokenUse(chain, verdict.tx.name, Len(chain)) = 0
        /\ \A u \in Uids :
              CheckToken(chain, issuances,
                         [type |-> "ISSUANCE", uid |-> u, name |-> verdict.tx.name, prevout |-> 0],
                         FALSE).ok

C2_Witness ==
    /\ verdict.op = "DisconnectBlock"
    /\ verdict.tx.type = "ISSUANCE"
    /\ Len(chain) >= 1
    /\ issuances # {}

\* C3: CheckTokenInputs accepts a transfer only if the output it spends
\* carries the (uid, name) of the transfer's output.
C3_TransferIdentity ==
    (verdict.op = "CheckTokenInputs" /\ verdict.ok) =>
        /\ verdict.tx.prevout \in 1..Len(chain)
        /\ chain[verdict.tx.prevout].uid = verdict.tx.uid
        /\ chain[verdict.tx.prevout].name = verdict.tx.name

C3_Witness ==
    /\ verdict.op = "CheckTokenInputs"
    /\ verdict.ok
    /\ Len(chain) >= 2
    /\ \E h \in 1..Len(chain) : chain[h].name # verdict.tx.name

\* ------------------------------------------------------------------------
\* Properties of the funding calls
\* ------------------------------------------------------------------------
IsMintCall == call.op = "FundMintTransaction"
IsTokenCall == call.op = "FundTokenTransaction"

RECURSIVE SumValues(_)
SumValues(S) ==
    IF S = {} THEN 0
    ELSE LET i == CHOOSE x \in S : TRUE IN wallet[i].value + SumValues(S \ {i})

\* The outpoints the call looked at: all of them when it failed, those up to
\* the one it returned on when it succeeded.
Examined ==
    IF call.ok THEN 1..call.ret[Len(call.ret)] ELSE 1..Len(wallet)

LastSelected == call.ret[Len(call.ret)]

\* The eligibility the specification words, read off the output's fields.
PassesHelperTests(out) ==
    /\ ~out.inMempool
    /\ out.unspent
    /\ out.mine
    /\ ~out.outInMempool

CarriesNoPayload(out) == out.script.tag # "token" /\ out.script.tag # "checksum"

DecodesTo(out, nm) ==
    out.script.tag = "token" /\ out.script.wellformed /\ out.script.name = nm

MintEligible == {i \in 1..Len(wallet) :
    /\ PassesHelperTests(wallet[i])
    /\ wallet[i].confs > TOKEN_MINCONFS
    /\ CarriesNoPayload(wallet[i])}

TokenEligible(nm) == {i \in 1..Len(wallet) :
    /\ PassesHelperTests(wallet[i])
    /\ wallet[i].confs > TOKEN_MINCONFS
    /\ DecodesTo(wallet[i], nm)}

\* C4: FundMintTransaction never returns success with accumulated value below
\* the target: when it returns true, amountFound >= amountMin, and amountFound
\* is the value of the outputs it selected.
C4_MintSuccessReachesTarget ==
    (IsMintCall /\ call.ok) =>
        /\ call.amountFound >= call.amountMin
        /\ SumValues(Sel(call)) >= call.amountMin

C4_Witness ==
    /\ IsMintCall
    /\ call.ok
    /\ call.amountMin = 2
    /\ Cardinality(Sel(call)) = 2

\* C5: in both funding calls an output with exactly TOKEN_MINCONFS
\* confirmations is never selected, and an output with TOKEN_MINCONFS + 1
\* confirmations that is otherwise eligible and was looked at is selected.
FitsCall(out) ==
    IF IsMintCall THEN CarriesNoPayload(out) ELSE DecodesTo(out, call.tokenname)

C5_ConfirmationBoundary ==
    (IsMintCall \/ IsTokenCall) =>
        /\ \A i \in Sel(call) : wallet[i].confs # TOKEN_MINCONFS
        /\ \A i \in Examined :
              (/\ wallet[i].confs = TOKEN_MINCONFS + 1
               /\ PassesHelperTests(wallet[i])
               /\ FitsCall(wallet[i])) => i \in Sel(call)

C5_Witness ==
    /\ IsTokenCall
    /\ \E i, j \in Examined :
          /\ wallet[i].confs = TOKEN_MINCONFS
          /\ PassesHelperTests(wallet[i])
          /\ FitsCall(wallet[i])
          /\ i \notin Sel(call)
          /\ wallet[j].confs = TOKEN_MINCONFS + 1
          /\ j \in Sel(call)

\* C6: every input FundMintTransaction selects refers to an output that is
\* not in a transaction still in the mempool, is unspent, is wallet-owned, is
\* not referenced by a pending mempool transaction, and carries neither a
\* token nor a checksum payload.
C6_MintSelectsOnlyEligible ==
    IsMintCall =>
        \A i \in Sel(call) :
            /\ ~wallet[i].inMempool
            /\ wallet[i].unspent
            /\ wallet[i].mine
            /\ ~wallet[i].outInMempool
            /\ wallet[i].script.tag # "token"
            /\ wallet[i].script.tag # "checksum"

C6_Witness ==
    /\ IsMintCall
    /\ call.ok
    /\ \E i, j \in Examined :
          /\ i < j
          /\ wallet[i].script.tag = "checksum"
          /\ PassesHelperTests(wallet[i])
          /\ i \notin Sel(call)
          /\ j \in Sel(call)

\* C7: FundTokenTransaction applies the filters of FundMintTransaction and
\* selects only outputs whose script decodes to a token of the asked name;
\* outputs that do not decode, or decode to another name, are skipped without
\* failing the call: it succeeds whenever the eligible outputs of that name
\* reach the target.
C7_TokenSelectsOnlyNamed ==
    IsTokenCall =>
        /\ \A i \in Sel(call) :
              /\ PassesHelperTests(wallet[i])
              /\ wallet[i].confs > TOKEN_MINCONFS
              /\ DecodesTo(wallet[i], call.tokenname)
        /\ (/\ TokenEligible(call.tokenname) # {}
            /\ SumValues(TokenEligible(call.tokenname)) >= call.amountMin) => call.ok

C7_Witness ==
    /\ IsTokenCall
    /\ call.ok
    /\ \E i, j \in Examined :
          /\ i < j
          /\ wallet[i].script.tag = "token"
          /\ ~DecodesTo(wallet[i], call.tokenname)
          /\ PassesHelperTests(wallet[i])
          /\ j \in Sel(call)

\* C8 as claimed: FundMintTransaction fails only when the total value of all
\* eligible outputs is below the target.
C8_FailsOnlyBelowTarget ==
    (IsMintCall /\ ~call.ok) => SumValues(MintEligible) < call.amountMin

\* C8 as amended: FundMintTransaction fails only when the total value of all
\* eligible outputs is below the target, or when no output is eligible (a
\* target of zero or less is then not met either).
C8_FailsOnlyWhenExhausted ==
    (IsMintCall /\ ~call.ok) =>
        \/ SumValues(MintEligible) < call.amountMin
        \/ MintEligible = {}

C8_Witness ==
    /\ IsMintCall
    /\ ~call.ok
    /\ MintEligible # {}
    /\ Sel(call) = MintEligible

\* The inputs pushed by the call are the eligible outputs up to the last one
\* selected, in enumeration order.
SelectedIsPrefixOf(eligible) ==
    /\ Sel(call) = {i \in eligible : i <= LastSelected}
    /\ \A k \in (Len(call.retIn) + 1)..(Len(call.ret) - 1) : call.ret[k] < call.ret[k + 1]

\* C9 as claimed: on success the selected inputs are a prefix of the eligible
\* outputs in enumeration order and the total without the last selected input
\* is below the target.
C9_FirstFit ==
    (IsMintCall /\ call.ok) =>
        /\ SelectedIsPrefixOf(MintEligible)
        /\ SumValues(Sel(call) \ {LastSelected}) < call.amountMin

\* C9 as amended: on success the selected inputs are a prefix of the eligible
\* outputs in enumeration order, and the total without the last selected
\* input is below the target unless the target is zero or less, in which case
\* exactly the first eligible output is selected.
C9_FirstFitPositiveTarget ==
    (IsMintCall /\ call.ok) =>
        /\ SelectedIsPrefixOf(MintEligible)
        /\ \/ SumValues(Sel(call) \ {LastSelected}) < call.amountMin
           \/ call.amountMin <= 0 /\ Cardinality(Sel(call)) = 1

C9_Witness ==
    /\ IsMintCall
    /\ call.ok
    /\ call.amountMin > 0
    /\ Cardinality(Sel(call)) = 2
    /\ SumValues(Sel(call)) > call.amountMin

\* C10 as claimed: two funding calls for the same token name select disjoint
\* outpoints.
C10_TwoCallsDisjoint ==
    (/\ IsTokenCall
     /\ prev.op = "FundTokenTransaction"
     /\ prev.tokenname = call.tokenname) => prev.sel \cap Sel(call) = {}

\* C10 as amended: two funding calls for the same token name select disjoint
\* outpoints when the transaction spending the first call's inputs has entered
\* the mempool before the second call.
C10_DisjointOnceInMempool ==
    (/\ IsTokenCall
     /\ prev.op = "FundTokenTransaction"
     /\ prev.tokenname = call.tokenname
     /\ prev.accepted) => prev.sel \cap Sel(call) = {}

C10_Witness ==
    /\ IsTokenCall
    /\ call.ok
    /\ prev.op = "FundTokenTransaction"
    /\ prev.tokenname = call.tokenname
    /\ prev.accepted
    /\ prev.sel # {}


\* ---------------------------------------------------------------------------
\* Balance aggregator: CWallet::GetUnconfirmedTokenBalance (wallet.cpp 182-208)
\* ---------------------------------------------------------------------------

MaxPool == 2

\* An output of a mempool transaction: its script, the type of the token the
\* script carries, whether the wallet owns it, and its value.
PoolOutput(pk, ty, m, v) == [script |-> pk, type |-> ty, mine |-> m, value |-> v]

PlainPoolOutput == PoolOutput(PlainScript, "NONE", TRUE, 1)

PoolOutputs ==
    {PlainPoolOutput}
        \cup {PoolOutput(TokenScript("GOLD"), ty, m, v) :
                ty \in {"ISSUANCE", "TRANSFER"}, m \in BOOLEAN, v \in Values}
        \cup {PoolOutput(TokenScript("SILVER"), "TRANSFER", TRUE, 1)}
        \cup {PoolOutput(MalformedTokenScript, "NONE", m, 1) : m \in BOOLEAN}
        \cup {PoolOutput(TokenScript("AU"), "ISSUANCE", TRUE, 1)}

\* A mempool transaction is its outputs: a payment, or a payment and its change.
PoolTxs ==
    {<<o>> : o \in PoolOutputs}
        \cup {<<o, p>> : o \in PoolOutputs,
                p \in {PlainPoolOutput, PoolOutput(TokenScript("GOLD"), "TRANSFER", TRUE, 1)}}

Pools == UNION {[1..n -> PoolTxs] : n \in 0..MaxPool}

\* The balances map of a caller: empty, or holding an earlier total.
BalancesArgs == {NoBalances, [NoBalances EXCEPT !["GOLD"] = 1]}

\* The CTxMemPool objects a caller can pass: the global mempool or another.
PoolIds == {"mempool", "otherPool"}

\* wallet.cpp 184: LOCK(mempool.cs) takes the lock of the global mempool.
LockedPool == "mempool"

HasTokenOutput(mtx) == \E i \in 1..Len(mtx) : IsPayToToken(mtx[i].script)

\* ContextualCheckToken on a script: decode it, then validate the token.
ContextualCheckTokenScript(out) ==
    IF ~BuildTokenFromScript(out.script).ok
    THEN Reject("MalformedScript")
    ELSE ContextualCheckToken(
            [type |-> out.type, uid |-> 1, name |-> BuildTokenFromScript(out.script).name,
             prevout |-> 0])

\* Variant: the error of ContextualCheckToken reaches the caller.
BalanceFailureKeepsError(out, balances) ==
    [ok |-> FALSE, strError |-> ContextualCheckTokenScript(out).error, balances |-> balances]

\* wallet.cpp 195-197: the specific error is logged, strError is overwritten.
BalanceFailure(out, balances) ==
    [ok |-> FALSE, strError |-> "corrupt-invalid-existing-mempool", balances |-> balances]

\* wallet.cpp 187-207: the scan, at output i of transaction t, over the caller's map.
RECURSIVE BalanceLoop(_, _, _, _)
BalanceLoop(p, t, i, balances) ==
    IF t > Len(p)
    THEN [ok |-> TRUE, strError |-> "", balances |-> balances]
    ELSE IF ~HasTokenOutput(p[t]) \/ i > Len(p[t])
    THEN BalanceLoop(p, t + 1, 1, balances)
    ELSE LET out == p[t][i]
         IN IF IsPayToToken(out.script) /\ IsMine(out)
            THEN IF ~ContextualCheckTokenScript(out).ok
                 THEN BalanceFailure(out, balances)
                 ELSE BalanceLoop(p, t, i + 1,
                        [balances EXCEPT
                            ![BuildTokenFromScript(out.script).name] = @ + out.value])
            ELSE BalanceLoop(p, t, i + 1, balances)

GetUnconfirmedTokenBalance(p, balances) == BalanceLoop(p, 1, 1, balances)

BalanceInit ==
    /\ WalletIdle
    /\ TokenIdle
    /\ pool \in Pools
    /\ poolId \in PoolIds
    /\ bal = NoBal
    /\ SignIdle
    /\ AcceptIdle
    /\ RecordIdle
    /\ NodeIdle

CallGetUnconfirmedTokenBalance ==
    \E balances \in BalancesArgs :
        LET r == GetUnconfirmedTokenBalance(pool, balances)
        IN /\ bal' = [op |-> "GetUnconfirmedTokenBalance", balancesIn |-> balances,
                      ok |-> r.ok, strError |-> r.strError, balances |-> r.balances,
                      locked |-> LockedPool, read |-> poolId]
           /\ UNCHANGED <<pool, poolId>>

BalanceNext ==
    CallGetUnconfirmedTokenBalance /\ UNCHANGED <<walletVars, tokenVars, signVars, acceptVars, recordVars, nodeVars>>

SpecBalance == BalanceInit /\ [][BalanceNext]_vars


\* ---------------------------------------------------------------------------
\* Balance aggregator properties (SpecBalance)
\* ---------------------------------------------------------------------------

IsBalanceCall == bal.op = "GetUnconfirmedTokenBalance"

\* The outputs of the pool in scan order.
RECURSIVE Flatten(_)
Flatten(p) == IF p = <<>> THEN <<>> ELSE Head(p) \o Flatten(Tail(p))

\* The outputs the scan decodes: wallet-owned outputs carrying a token script.
Decoded(out) == IsPayToToken(out.script) /\ out.mine

FailsCheck(out) == Decoded(out) /\ ~ContextualCheckTokenScript(out).ok

\* The position of the first output whose check fails, 0 if there is none.
FirstFailure(outs) ==
    IF \E k \in 1..Len(outs) : FailsCheck(outs[k])
    THEN CHOOSE k \in 1..Len(outs) :
            FailsCheck(outs[k]) /\ \A j \in 1..(k - 1) : ~FailsCheck(outs[j])
    ELSE 0

RECURSIVE SumBefore(_, _, _)
SumBefore(outs, k, nm) ==
    IF k = 0
    THEN 0
    ELSE SumBefore(outs, k - 1, nm)
            + (IF Decoded(outs[k]) /\ outs[k].script = TokenScript(nm) THEN outs[k].value ELSE 0)

\* C11: a failed GetUnconfirmedTokenBalance leaves in the caller's balances
\* map no amount accumulated from the outputs scanned before the failure.
C11_NoPartialTotals == (IsBalanceCall /\ ~bal.ok) => bal.balances = bal.balancesIn

\* C12: a mempool holding the issuance of GOLD with value v and then a
\* wallet-owned transfer of that token with value v yields the balance v.
IssuanceThenTransfer(v) ==
    /\ Len(pool) = 2
    /\ Len(pool[1]) = 1
    /\ pool[1][1].script = TokenScript("GOLD")
    /\ pool[1][1].type = "ISSUANCE"
    /\ pool[1][1].value = v
    /\ Len(pool[2]) = 1
    /\ pool[2][1] = PoolOutput(TokenScript("GOLD"), "TRANSFER", TRUE, v)

C12_MovedValueCountedOnce ==
    \A v \in Values :
        (IsBalanceCall /\ bal.balancesIn = NoBalances /\ IssuanceThenTransfer(v))
            => (bal.ok /\ bal.balances["GOLD"] = v)

\* C13 as stated: the scan stops at the first failure and returns the error
\* that ContextualCheckToken produced for that output.
C13_ReturnsSpecificError ==
    (IsBalanceCall /\ ~bal.ok)
        => LET outs == Flatten(pool)
           IN bal.strError = ContextualCheckTokenScript(outs[FirstFailure(outs)]).error

\* C13 amended: the scan fails exactly when some decoded output fails its
\* check, stops at the first such output (the map holds what was added before
\* it and nothing after it), and returns "corrupt-invalid-existing-mempool".
C13_StopsWithGenericError ==
    IsBalanceCall =>
        LET outs == Flatten(pool)
            f == FirstFailure(outs)
        IN /\ bal.ok <=> f = 0
           /\ ~bal.ok =>
                /\ bal.strError = "corrupt-invalid-existing-mempool"
                /\ \A nm \in TokenNames :
                        bal.balances[nm] = bal.balancesIn[nm] + SumBefore(outs, f - 1, nm)

\* A failure behind an output that was already added, and a decodable output
\* following the failing one.
C13_Witness ==
    /\ IsBalanceCall
    /\ ~bal.ok
    /\ LET outs == Flatten(pool)
           f == FirstFailure(outs)
       IN /\ f = 2
          /\ Len(outs) >= 3
          /\ Decoded(outs[1])
          /\ Decoded(outs[3])
          /\ ~FailsCheck(outs[3])


\* ---------------------------------------------------------------------------
\* Transaction signer: CWallet::SignTokenTransaction (wallet.cpp 124-180)
\* ---------------------------------------------------------------------------

MaxIns == 2

Outpoints == 1..MaxIns

CoinStatuses == {"unspent", "spent", "missing"}

ScriptErrors == {"SCRIPT_ERR_OK", "SCRIPT_ERR_EVAL_FALSE", "SCRIPT_ERR_SIG_NULLFAIL"}

\* ScriptErrorString(serror): the text of a script error code.
ScriptErrorString(serror) ==
    CASE serror = "SCRIPT_ERR_OK" -> "No error"
      [] serror = "SCRIPT_ERR_EVAL_FALSE" ->
            "Script evaluated without error but finished with a false/empty top stack element"
      [] serror = "SCRIPT_ERR_SIG_NULLFAIL" ->
            "Signature must be zero for failed CHECK(MULTI)SIG operation"
      [] OTHER -> "unknown error"

\* An input of rawTx: the outpoint it spends and what VerifyScript reports for
\* the signature the keystore can produce against the previous output's script.
TxIns == [prevout : Outpoints, serror : ScriptErrors]

Vins == UNION {[1..n -> TxIns] : n \in 0..MaxIns}

\* Coin::IsSpent on what view.AccessCoin returns: an outpoint that is absent
\* yields the empty coin, which is spent.
CoinIsSpent(status) == status # "unspent"

Filled(n, x) == [k \in 1..n |-> x]

\* wallet.cpp 124-130: entry; the caller may or may not hold cs_main.
SignCall ==
    /\ signer.pc = "idle"
    /\ \E vin \in Vins, callerHeld \in {{}, {"cs_main"}} :
        /\ signer' = [pc |-> "lock", vin |-> vin, i |-> 1,
                      loaded |-> Filled(Len(vin), "missing"),
                      sigs |-> Filled(Len(vin), FALSE), ok |-> FALSE,
                      strError |-> "No error"]
        /\ held' = callerHeld
    /\ UNCHANGED coins

\* wallet.cpp 132: LOCK(mempool.cs).
SignLock ==
    /\ signer.pc = "lock"
    /\ held' = held \cup {"mempool.cs"}
    /\ signer' = [signer EXCEPT !.pc = "load"]
    /\ UNCHANGED coins

\* wallet.cpp 137-139: view.AccessCoin(txin.prevout) caches one previous output.
SignLoad ==
    /\ signer.pc = "load"
    /\ signer.i <= Len(signer.vin)
    /\ signer' = [signer EXCEPT !.loaded[signer.i] = coins[signer.vin[signer.i].prevout],
                                !.i = @ + 1]
    /\ UNCHANGED <<coins, held>>

\* Variant: the lock outlives the block.
ScopeExitKeepsLock(h) == h

\* wallet.cpp 142: the block ends and the scoped lock is released.
ScopeExit(h) == h \ {"mempool.cs"}

\* wallet.cpp 141-147: the view is cut off from the mempool, the block ends.
SignUnlock ==
    /\ signer.pc = "load"
    /\ signer.i > Len(signer.vin)
    /\ held' = ScopeExit(held)
    /\ signer' = [signer EXCEPT !.pc = "sign", !.i = 1]
    /\ UNCHANGED coins

\* Variant: a failed verification is recorded but the loop goes on.
SignVerifyContinues(sg) ==
    IF sg.vin[sg.i].serror # "SCRIPT_ERR_OK"
    THEN [sg EXCEPT !.pc = "sign", !.i = @ + 1,
                    !.strError = ScriptErrorString(sg.vin[sg.i].serror)]
    ELSE [sg EXCEPT !.pc = "sign", !.i = @ + 1]

\* wallet.cpp 172-176: VerifyScript on the updated input.
SignVerify(sg) ==
    IF sg.vin[sg.i].serror # "SCRIPT_ERR_OK"
    THEN [sg EXCEPT !.pc = "done", !.ok = FALSE,
                    !.strError = ScriptErrorString(sg.vin[sg.i].serror)]
    ELSE [sg EXCEPT !.pc = "sign", !.i = @ + 1]

\* Variant: the previous output is used without the IsSpent test.
SignProduceSkipsCoinTest(sg) ==
    IF sg.i > Len(sg.vin)
    THEN [sg EXCEPT !.pc = "done", !.ok = TRUE]
    ELSE [sg EXCEPT !.pc = "verify", !.sigs[sg.i] = TRUE]

\* wallet.cpp 151-170, 179: the loop head, the coin test, and the signature
\* written into the input.
SignProduce(sg) ==
    IF sg.i > Len(sg.vin)
    THEN [sg EXCEPT !.pc = "done", !.ok = TRUE]
    ELSE IF CoinIsSpent(sg.loaded[sg.i])
    THEN [sg EXCEPT !.pc = "done", !.ok = FALSE,
                    !.strError = "Input not found or already spent"]
    ELSE [sg EXCEPT !.pc = "verify", !.sigs[sg.i] = TRUE]

SignStep ==
    /\ signer.pc = "sign"
    /\ signer' = SignProduce(signer)
    /\ UNCHANGED <<coins, held>>

VerifyStep ==
    /\ signer.pc = "verify"
    /\ signer' = SignVerify(signer)
    /\ UNCHANGED <<coins, held>>

\* The call has returned; the caller drops what it held.
SignReturn ==
    /\ signer.pc = "done"
    /\ signer' = NoSigner
    /\ held' = {}
    /\ UNCHANGED coins

\* Another thread changes the mempool under mempool.cs: a transaction is
\* accepted that creates an outpoint or spends one.
MempoolChange ==
    /\ "mempool.cs" \notin held
    /\ \E o \in Outpoints :
        \/ coins[o] = "missing" /\ coins' = [coins EXCEPT ![o] = "unspent"]
        \/ coins[o] = "unspent" /\ coins' = [coins EXCEPT ![o] = "spent"]
    /\ UNCHANGED <<signer, held>>

SignInit ==
    /\ WalletIdle
    /\ TokenIdle
    /\ BalanceIdle
    /\ coins \in [Outpoints -> CoinStatuses]
    /\ signer = NoSigner
    /\ held = {}
    /\ AcceptIdle
    /\ RecordIdle
    /\ NodeIdle

SignNext ==
    \/ SignCall /\ UNCHANGED <<walletVars, tokenVars, balanceVars, acceptVars, recordVars, nodeVars>>
    \/ SignLock /\ UNCHANGED <<walletVars, tokenVars, balanceVars, acceptVars, recordVars, nodeVars>>
    \/ SignLoad /\ UNCHANGED <<walletVars, tokenVars, balanceVars, acceptVars, recordVars, nodeVars>>
    \/ SignUnlock /\ UNCHANGED <<walletVars, tokenVars, balanceVars, acceptVars, recordVars, nodeVars>>
    \/ SignStep /\ UNCHANGED <<walletVars, tokenVars, balanceVars, acceptVars, recordVars, nodeVars>>
    \/ VerifyStep /\ UNCHANGED <<walletVars, tokenVars, balanceVars, acceptVars, recordVars, nodeVars>>
    \/ SignReturn /\ UNCHANGED <<walletVars, tokenVars, balanceVars, acceptVars, recordVars, nodeVars>>
    \/ MempoolChange /\ UNCHANGED <<walletVars, tokenVars, balanceVars, acceptVars, recordVars, nodeVars>>

SpecSign == SignInit /\ [][SignNext]_vars


\* ---------------------------------------------------------------------------
\* Transaction signer properties (SpecSign)
\* ---------------------------------------------------------------------------

IsSignDone == signer.pc = "done"

SpentMessage == "Input not found or already spent"

InputSpent(k) == CoinIsSpent(signer.loaded[k])

InputFailsVerify(k) == signer.vin[k].serror # "SCRIPT_ERR_OK"

\* The first input that is spent in the view or fails verification, 0 if none.
FirstBadInput ==
    LET bad(k) == InputSpent(k) \/ InputFailsVerify(k)
        n == Len(signer.vin)
    IN IF \E k \in 1..n : bad(k)
       THEN CHOOSE k \in 1..n : bad(k) /\ \A j \in 1..(k - 1) : ~bad(j)
       ELSE 0

\* C14 as stated: a previous output that is missing or spent in the view, for
\* any input, makes the call fail with "Input not found or already spent".
C14_SpentInputMessage ==
    (IsSignDone /\ \E k \in 1..Len(signer.vin) : InputSpent(k))
        => (~signer.ok /\ signer.strError = SpentMessage)

\* C14 amended: such a call fails, and the message is "Input not found or
\* already spent" exactly when the first input that is spent or fails
\* verification is a spent one; otherwise it is that input's script error.
C14_SpentInputFails ==
    (IsSignDone /\ \E k \in 1..Len(signer.vin) : InputSpent(k))
        => /\ ~signer.ok
           /\ IF InputSpent(FirstBadInput)
              THEN signer.strError = SpentMessage
              ELSE signer.strError = ScriptErrorString(signer.vin[FirstBadInput].serror)

\* A verified first input followed by one that the view does not hold.
C14_Witness ==
    /\ IsSignDone
    /\ Len(signer.vin) = 2
    /\ ~InputSpent(1)
    /\ ~InputFailsVerify(1)
    /\ signer.sigs[1]
    /\ signer.loaded[2] = "missing"
    /\ signer.strError = SpentMessage

\* C15: the call succeeds only if every input resolved to an unspent previous
\* output and verified; at the first verification failure it fails with the
\* text of the script error and no later input is signed.
C15_SuccessOnlyIfAllVerified ==
    IsSignDone =>
        LET f == FirstBadInput
            n == Len(signer.vin)
        IN /\ signer.ok <=> f = 0
           /\ signer.ok => \A k \in 1..n : ~InputSpent(k) /\ ~InputFailsVerify(k) /\ signer.sigs[k]
           /\ (f # 0 /\ ~InputSpent(f)) =>
                /\ ~signer.ok
                /\ signer.strError = ScriptErrorString(signer.vin[f].serror)
                /\ signer.i = f
                /\ \A k \in 1..n : signer.sigs[k] <=> k <= f

\* The first input fails verification and a signable input follows it.
C15_Witness ==
    /\ IsSignDone
    /\ ~signer.ok
    /\ Len(signer.vin) = 2
    /\ ~InputSpent(1)
    /\ InputFailsVerify(1)
    /\ ~InputSpent(2)
    /\ ~InputFailsVerify(2)

\* C16: the mempool lock is not held while a signature is produced or
\* verified; it is held only while the previous outputs are loaded.
C16_NoMempoolLockWhileSigning ==
    /\ signer.pc \in {"sign", "verify"} => "mempool.cs" \notin held
    /\ "mempool.cs" \in held => signer.pc = "load"

\* The mempool changed under the signer: the output being verified was loaded
\* unspent and has been spent since.
C16_Witness ==
    /\ signer.pc = "verify"
    /\ signer.loaded[signer.i] = "unspent"
    /\ coins[signer.vin[signer.i].prevout] = "spent"

\* C17: while the view is built both the chain-state lock and the mempool
\* lock are held, and neither is held once signing has begun.
C17_BothLocksAroundView ==
    /\ signer.pc = "load" => {"cs_main", "mempool.cs"} \subseteq held
    /\ signer.pc \in {"sign", "verify"} => held \cap {"cs_main", "mempool.cs"} = {}


\* ---------------------------------------------------------------------------
\* Uniqueness bookkeeping properties (SpecToken)
\* ---------------------------------------------------------------------------

ClaimOf(tx) == [uid |-> tx.uid, name |-> tx.name]

\* C18: a check run with onlyCheck = true leaves the set of claims as it
\* was, whatever its result; a claim is added only by an accepted issuance
\* checked with onlyCheck = false at block connection.
C18_OnlyCheckLeavesClaims ==
    [][/\ verdict'.onlyCheck => issuances' = issuances
       /\ (issuances' \ issuances) # {} =>
            /\ verdict'.op = "ConnectBlock"
            /\ ~verdict'.onlyCheck
            /\ verdict'.ok
            /\ verdict'.tx.type = "ISSUANCE"
            /\ issuances' = issuances \cup {ClaimOf(verdict'.tx)}]_vars

\* An accepted pre-check of an issuance while another name is claimed: its
\* own claim is not in the bookkeeping.
C18_Witness ==
    /\ verdict.op = "CheckTokenIssuance"
    /\ verdict.onlyCheck
    /\ verdict.ok
    /\ issuances # {}
    /\ ClaimOf(verdict.tx) \notin issuances

ClaimsOfChain == {ClaimOf(chain[h]) : h \in {k \in 1..Len(chain) : chain[k].type = "ISSUANCE"}}

\* C19: the bookkeeping always holds exactly the claims of the issuances on
\* the chain, so an undo reverses what the connection recorded; undoing a
\* block again, or undoing a claim that was never recorded, changes nothing.
C19_UndoReversesAndIsIdempotent ==
    /\ []( issuances = ClaimsOfChain )
    /\ [][verdict'.op \in {"UndoTokenIssuancesInBlock", "UndoTokenIssuance"}
            => issuances' = issuances]_vars

\* A second undo of a disconnected issuance while the claim of another block
\* is still recorded.
C19_Witness ==
    /\ verdict.op = "UndoTokenIssuancesInBlock"
    /\ verdict.tx.type = "ISSUANCE"
    /\ issuances # {}
    /\ ClaimOf(verdict.tx) \notin issuances


\* ---------------------------------------------------------------------------
\* Mempool acceptance: CheckTokenMempool (verify.h 20) and its callers
\* ---------------------------------------------------------------------------

NumAcceptors == 2

Acceptors == 1..NumAcceptors

\* The token transactions submitted to the mempool.
SubmittedTxs ==
    [type : {"ISSUANCE", "TRANSFER"}, uid : Uids, name : TokenNames, prevout : {0}]

IdleAcceptor == [pc |-> "idle", tx |-> NoTx, ok |-> FALSE, error |-> ""]

\* A mutant: only a pool entry for the same token operation is a conflict.
CheckTokenMempoolSameOperation(p, tx) ==
    IF \E e \in p : e.name = tx.name /\ e.type = tx.type
    THEN Reject("MempoolConflict")
    ELSE Accept

\* CheckTokenMempool(pool, tx, strError): a token transaction for the name is
\* already in the pool.
CheckTokenMempool(p, tx) ==
    IF \E e \in p : e.name = tx.name
    THEN Reject("MempoolConflict")
    ELSE Accept

\* A thread submits a transaction for acceptance.
Submit(a) ==
    /\ acceptors[a].pc = "idle"
    /\ \E tx \in SubmittedTxs :
        acceptors' = [acceptors EXCEPT ![a] = [IdleAcceptor EXCEPT !.pc = "waiting", !.tx = tx]]
    /\ UNCHANGED <<txpool, poolLock>>

\* The acceptance path takes the mempool lock.
Acquire(a) ==
    /\ acceptors[a].pc = "waiting"
    /\ poolLock = 0
    /\ poolLock' = a
    /\ acceptors' = [acceptors EXCEPT ![a].pc = "check"]
    /\ UNCHANGED txpool

\* CheckTokenMempool against the pool as it is now.
Check(a) ==
    /\ acceptors[a].pc = "check"
    /\ acceptors' = [acceptors EXCEPT ![a].pc = "insert",
                                      ![a].ok = CheckTokenMempool(txpool, acceptors[a].tx).ok,
                                      ![a].error = CheckTokenMempool(txpool, acceptors[a].tx).error]
    /\ UNCHANGED <<txpool, poolLock>>

\* An accepted transaction enters the pool; the lock is released.
Insert(a) ==
    /\ acceptors[a].pc = "insert"
    /\ txpool' = IF acceptors[a].ok THEN txpool \cup {acceptors[a].tx} ELSE txpool
    /\ poolLock' = 0
    /\ acceptors' = [acceptors EXCEPT ![a] = IdleAcceptor]

\* A transaction leaves the pool: it was mined or evicted.
RemoveFromPool ==
    /\ poolLock = 0
    /\ \E tx \in txpool : txpool' = txpool \ {tx}
    /\ UNCHANGED <<acceptors, poolLock>>

MempoolInit ==
    /\ WalletIdle
    /\ TokenIdle
    /\ BalanceIdle
    /\ SignIdle
    /\ txpool = {}
    /\ acceptors = [a \in Acceptors |-> IdleAcceptor]
    /\ poolLock = 0
    /\ RecordIdle
    /\ NodeIdle

MempoolNext ==
    \/ \E a \in Acceptors :
        Submit(a) /\ UNCHANGED <<walletVars, tokenVars, balanceVars, signVars, recordVars, nodeVars>>
    \/ \E a \in Acceptors :
        Acquire(a) /\ UNCHANGED <<walletVars, tokenVars, balanceVars, signVars, recordVars, nodeVars>>
    \/ \E a \in Acceptors :
        Check(a) /\ UNCHANGED <<walletVars, tokenVars, balanceVars, signVars, recordVars, nodeVars>>
    \/ \E a \in Acceptors :
        Insert(a) /\ UNCHANGED <<walletVars, tokenVars, balanceVars, signVars, recordVars, nodeVars>>
    \/ RemoveFromPool /\ UNCHANGED <<walletVars, tokenVars, balanceVars, signVars, recordVars, nodeVars>>

SpecMempool == MempoolInit /\ [][MempoolNext]_vars

\* C20: the mempool never holds two token transactions of the same name, and
\* a transaction checked while the pool holds one of its name is rejected
\* with MempoolConflict.
C20_OneTokenTxPerName ==
    /\ \A t1 \in txpool : \A t2 \in txpool : t1.name = t2.name => t1 = t2
    /\ \A a \in Acceptors :
        acceptors[a].pc = "insert" =>
            IF \E e \in txpool : e.name = acceptors[a].tx.name
            THEN ~acceptors[a].ok /\ acceptors[a].error = "MempoolConflict"
            ELSE acceptors[a].ok

\* Two attempts for one name in flight: the other thread was accepted first,
\* the issuance of this one has just been rejected against its transfer.
C20_Witness ==
    \E a \in Acceptors : \E b \in Acceptors :
        /\ a # b
        /\ acceptors[a].pc = "insert"
        /\ acceptors[a].error = "MempoolConflict"
        /\ acceptors[a].tx.type = "ISSUANCE"
        /\ acceptors[b].pc = "waiting"
        /\ acceptors[b].tx.name = acceptors[a].tx.name
        /\ \E e \in txpool : e.type = "TRANSFER" /\ e.name = acceptors[a].tx.name


\* ---------------------------------------------------------------------------
\* Funding calls: the caller's vector on return (SpecWallet)
\* ---------------------------------------------------------------------------

RECURSIVE SumOfRet(_)
SumOfRet(ret) ==
    IF ret = <<>> THEN 0 ELSE wallet[Head(ret)].value + SumOfRet(Tail(ret))

\* C30: on return of a funding call amountFound is the sum of the values of
\* the outputs referenced by ret, and ret holds no outpoint twice.
C30_AmountFoundIsSumOfRet ==
    (IsMintCall \/ IsTokenCall) =>
        /\ call.amountFound = SumOfRet(call.ret)
        /\ \A j \in 1..Len(call.ret) : \A k \in 1..Len(call.ret) :
                call.ret[j] = call.ret[k] => j = k


\* ---------------------------------------------------------------------------
\* Balance aggregator: the lock held while the pool is read (SpecBalance)
\* ---------------------------------------------------------------------------

\* C25: GetUnconfirmedTokenBalance reads the transactions of the pool it is
\* given while holding the lock of that same pool.
C25_ReadsPoolUnderItsLock == IsBalanceCall => bal.locked = bal.read


\* ---------------------------------------------------------------------------
\* Token record: class CToken (token.h 27-90)
\* ---------------------------------------------------------------------------

\* "THIRTEENCHARS" is longer than TOKENNAME_MAXLEN.
RecordNames == {"", "AU", "THIRTEENCHARS"} \cup TokenNames

RecordVersions == {1, 2}

RecordTypes == {"NONE", "ISSUANCE", "TRANSFER"}

RecordIds == {0} \cup Uids

RecordHashes == {"0", "ab"}

\* token.h 45-52: the default constructor.
CTokenCtor ==
    [version |-> 1, type |-> "NONE", uid |-> 0, name |-> "", origintx |-> "0"]

\* Variant: every field takes part in the comparison.
TokenEqualsAllFields(this, other) == this = other

\* token.h 86-89: operator==.
TokenEquals(this, other) == this.uid = other.uid /\ this.name = other.name

\* token.h 77-81: the setters store their argument as it is.
setId(t) ==
    \E thisId \in RecordIds : tokens' = [tokens EXCEPT ![t].uid = thisId]

setType(t) ==
    \E thisType \in RecordTypes : tokens' = [tokens EXCEPT ![t].type = thisType]

setVersion(t) ==
    \E thisVersion \in RecordVersions : tokens' = [tokens EXCEPT ![t].version = thisVersion]

setName(t) ==
    \E thisName \in RecordNames : tokens' = [tokens EXCEPT ![t].name = thisName]

setOriginTx(t) ==
    \E hash \in RecordHashes : tokens' = [tokens EXCEPT ![t].origintx = hash]

Compare ==
    /\ cmp' = [op |-> "operator==", result |-> TokenEquals(tokens[1], tokens[2])]
    /\ UNCHANGED tokens

RecordInit ==
    /\ WalletIdle
    /\ TokenIdle
    /\ BalanceIdle
    /\ SignIdle
    /\ AcceptIdle
    /\ tokens = <<CTokenCtor, CTokenCtor>>
    /\ cmp = NoCmp
    /\ NodeIdle

RecordOthers == <<walletVars, tokenVars, balanceVars, signVars, acceptVars, nodeVars>>

RecordNext ==
    \/ \E t \in 1..2 : setId(t) /\ cmp' = NoCmp /\ UNCHANGED RecordOthers
    \/ \E t \in 1..2 : setType(t) /\ cmp' = NoCmp /\ UNCHANGED RecordOthers
    \/ \E t \in 1..2 : setVersion(t) /\ cmp' = NoCmp /\ UNCHANGED RecordOthers
    \/ \E t \in 1..2 : setName(t) /\ cmp' = NoCmp /\ UNCHANGED RecordOthers
    \/ \E t \in 1..2 : setOriginTx(t) /\ cmp' = NoCmp /\ UNCHANGED RecordOthers
    \/ Compare /\ UNCHANGED RecordOthers

SpecRecord == RecordInit /\ [][RecordNext]_vars

\* C22: two records compare equal exactly when their uid and their name are
\* equal; version, type and origintx take no part.
C22_EqualityIsUidAndName ==
    cmp.op = "operator==" =>
        (cmp.result <=> (tokens[1].uid = tokens[2].uid /\ tokens[1].name = tokens[2].name))

\* Two records of one identity that differ in every other field compare equal.
C22_Witness ==
    /\ cmp.op = "operator=="
    /\ cmp.result
    /\ tokens[1].name = "GOLD"
    /\ tokens[1].version # tokens[2].version
    /\ tokens[1].type # tokens[2].type
    /\ tokens[1].origintx # tokens[2].origintx

\* C23: every CToken reachable through construction and the setters has a
\* name of TOKENNAME_MINLEN to TOKENNAME_MAXLEN characters.
C23_NameLengthInRange ==
    \A t \in DOMAIN tokens :
        /\ Len(tokens[t].name) >= TOKENNAME_MINLEN
        /\ Len(tokens[t].name) <= TOKENNAME_MAXLEN


\* ---------------------------------------------------------------------------
\* Node scoring: class CNodeBehavior (storage/behavior.cpp)
\* ---------------------------------------------------------------------------

MaxTip == 3           \* height of the active chain
nLastPoWBlock == 1    \* params.nLastPoWBlock, scaled to the chain of the model

\* The scores of storage/behavior.h.
SCORE_INCREASE == 50
SCORE_DECREASE == 50

StorageNode(ip, mode) == [ip |-> ip, space |-> 1, mode |-> mode, stat |-> 1, reg |-> 1]

\* struct StorageNode: mode, stat and reg are all positive for a node in good
\* standing.
StorageNodes == {StorageNode(1, 1), StorageNode(1, 0), StorageNode(2, 1)}

\* The nodes one proof lists: none, one or two.
ProofNodeLists == UNION {[1..n -> StorageNodes] : n \in 0..2}

\* CNetworkProof: a height and the nodes its proof lists.
Proofs == [height : 1..MaxTip, nodes : ProofNodeLists]

NodeHistory(ip, sp, h) == [ipaddr |-> ip, space |-> sp, health |-> h]

\* behavior.cpp 48-55.  The vector seen is only searched and SetSeen keeps
\* it free of duplicates: it is the set of its elements.
HaveSeen(sn, height) == \E l \in sn : l = height

\* behavior.cpp 39-46.
SetSeen(sn, height) == IF HaveSeen(sn, height) THEN sn ELSE sn \cup {height}

\* behavior.cpp 57-64.
HaveNode(ns, ipaddr) == \E k \in 1..Len(ns) : ns[k].ipaddr = ipaddr

\* behavior.cpp 66-75: the first entry with the address.
ReturnNode(ns, ipaddr) ==
    ns[CHOOSE k \in 1..Len(ns) :
            ns[k].ipaddr = ipaddr /\ \A j \in 1..(k - 1) : ns[j].ipaddr # ipaddr]

\* behavior.cpp 77-86.  The condition `l.ipaddr = in.ipaddr` assigns the
\* address to the entry and tests the value assigned.
RECURSIVE ReplaceLoop(_, _, _)
ReplaceLoop(ns, i, in) ==
    IF i > Len(ns)
    THEN [ok |-> FALSE, nodes |-> ns]
    ELSE IF in.ipaddr # 0
    THEN [ok |-> TRUE, nodes |-> [ns EXCEPT ![i] = in]]
    ELSE ReplaceLoop([ns EXCEPT ![i].ipaddr = in.ipaddr], i + 1, in)

ReplaceNode(ns, in) == ReplaceLoop(ns, 1, in)

\* behavior.cpp 88-91.
AddNode(ns, in) == Append(ns, in)

\* Variant: the score is not capped.
CapScoreOff(h) == h

\* behavior.cpp 117-119.
CapScore(h) == IF h > 100 THEN 100 ELSE h

\* behavior.cpp 136-138.
FloorScore(h) == IF h < 0 THEN 0 ELSE h

\* behavior.cpp 105-124: the loop over the nodes of the proof.
RECURSIVE ProofLoop(_, _, _, _)
ProofLoop(ns, pn, i, seen_nodes) ==
    IF i > Len(pn)
    THEN [nodes |-> ns, seen_nodes |-> seen_nodes]
    ELSE LET in == pn[i]
             ns1 == IF ~HaveNode(ns, in.ip)
                    THEN AddNode(ns, NodeHistory(in.ip, in.space, 100))
                    ELSE ns
             in2 == ReturnNode(ns1, in.ip)
             raised == IF in.mode > 0 /\ in.stat > 0 /\ in.reg > 0
                       THEN in2.health + SCORE_INCREASE
                       ELSE in2.health
             ns2 == ReplaceNode(ns1, [in2 EXCEPT !.health = CapScore(raised)]).nodes
         IN ProofLoop(ns2, pn, i + 1, seen_nodes \cup {in.ip})

\* behavior.cpp 127-142: every node the proof did not list loses score.
Decay(ns, seen_nodes) ==
    [k \in 1..Len(ns) |->
        IF ns[k].ipaddr \in seen_nodes
        THEN ns[k]
        ELSE [ns[k] EXCEPT !.health = FloorScore(@ - SCORE_DECREASE)]]

\* behavior.cpp 105-142: the scoring of one proof.
ApplyProof(ns, netproof) ==
    LET r == ProofLoop(ns, netproof.nodes, 1, {}) IN Decay(r.nodes, r.seen_nodes)

\* behavior.cpp 93-143.
AddProof(ns, sn, netproof) ==
    IF HaveSeen(sn, netproof.height) THEN ns ELSE ApplyProof(ns, netproof)

\* behavior.cpp 31-36.
RECURSIVE InitLoop(_, _, _, _)
InitLoop(ns, sn, c, height) ==
    IF height > Len(c) THEN ns ELSE InitLoop(AddProof(ns, sn, c[height]), sn, c, height + 1)

\* behavior.cpp 21-37: nodes.clear(), then the proofs of the chain.
InitNodes(sn, c) ==
    IF Len(c) <= nLastPoWBlock THEN <<>> ELSE InitLoop(<<>>, sn, c, nLastPoWBlock + 1)

\* The proofs carried by the blocks of the chain.
\* The blocks up to nLastPoWBlock carry no proof that is read.
BlockProofLists(h) ==
    IF h <= nLastPoWBlock
    THEN {<<>>}
    ELSE {<<StorageNode(1, 0)>>, <<StorageNode(1, 1), StorageNode(2, 1)>>}

ActiveChains ==
    UNION {{c \in [1..n -> Proofs] :
                \A h \in 1..n : c[h].height = h /\ c[h].nodes \in BlockProofLists(h)} :
           n \in 0..MaxTip}

NodeOthers == <<walletVars, tokenVars, balanceVars, signVars, acceptVars, recordVars>>

NodeInit ==
    /\ WalletIdle
    /\ TokenIdle
    /\ BalanceIdle
    /\ SignIdle
    /\ AcceptIdle
    /\ RecordIdle
    /\ nodes = <<>>
    /\ seen = {}
    /\ activeChain \in ActiveChains
    /\ lastOp = NoOp

CallInit ==
    /\ nodes' = InitNodes(seen, activeChain)
    /\ lastOp' = [op |-> "Init", height |-> Len(activeChain)]
    /\ UNCHANGED <<seen, activeChain>>

CallAddProof ==
    \E netproof \in Proofs :
        /\ nodes' = AddProof(nodes, seen, netproof)
        /\ lastOp' = [op |-> "AddProof", height |-> netproof.height]
        /\ UNCHANGED <<seen, activeChain>>

CallSetSeen ==
    \E height \in 1..MaxTip :
        /\ seen' = SetSeen(seen, height)
        /\ lastOp' = [op |-> "SetSeen", height |-> height]
        /\ UNCHANGED <<nodes, activeChain>>

NodeNext ==
    \/ CallInit /\ UNCHANGED NodeOthers
    \/ CallAddProof /\ UNCHANGED NodeOthers
    \/ CallSetSeen /\ UNCHANGED NodeOthers

SpecNode == NodeInit /\ [][NodeNext]_vars


\* Direct use of the node list: AddNode for an address the list does not
\* hold (as AddProof uses it) and ReplaceNode, on a list of bounded length.
MaxNodes == 3

\* uint32_t addresses; 0 is the address that tests false.
Ips == {0, 1, 2}

NodeEntries == {NodeHistory(ip, 1, h) : ip \in Ips, h \in {0, 100}}

NodeListInit ==
    /\ WalletIdle
    /\ TokenIdle
    /\ BalanceIdle
    /\ SignIdle
    /\ AcceptIdle
    /\ RecordIdle
    /\ nodes = <<>>
    /\ seen = {}
    /\ activeChain = <<>>
    /\ lastOp = NoOp

CallAddNode ==
    \E in \in NodeEntries :
        /\ Len(nodes) < MaxNodes
        /\ ~HaveNode(nodes, in.ipaddr)
        /\ nodes' = AddNode(nodes, in)
        /\ lastOp' = [op |-> "AddNode", height |-> 0]
        /\ UNCHANGED <<seen, activeChain>>

CallReplaceNode ==
    \E in \in NodeEntries :
        /\ nodes' = ReplaceNode(nodes, in).nodes
        /\ lastOp' = [op |-> "ReplaceNode", height |-> 0, in |-> in,
                      ok |-> ReplaceNode(nodes, in).ok]
        /\ UNCHANGED <<seen, activeChain>>

NodeListNext ==
    \/ CallAddNode /\ UNCHANGED NodeOthers
    \/ CallReplaceNode /\ UNCHANGED NodeOthers

SpecNodeList == NodeListInit /\ [][NodeListNext]_vars

\* ---------------------------------------------------------------------------
\* Node scoring properties (SpecNodeList, SpecNode)
\* ---------------------------------------------------------------------------

\* C24: ReplaceNode(in) replaces exactly the entry whose ipaddr equals
\* in.ipaddr and returns true, leaving every other entry as it was; with no
\* such entry it returns false and changes nothing.
C24_ReplaceByEquality ==
    [][lastOp'.op = "ReplaceNode" =>
        IF HaveNode(nodes, lastOp'.in.ipaddr)
        THEN /\ lastOp'.ok
             /\ nodes' = [k \in 1..Len(nodes) |->
                            IF nodes[k].ipaddr = lastOp'.in.ipaddr THEN lastOp'.in ELSE nodes[k]]
        ELSE ~lastOp'.ok /\ nodes' = nodes]_vars

\* C26: the node list holds at most one entry per ipaddr.
C26_OneEntryPerIp ==
    \A j \in 1..Len(nodes) : \A k \in 1..Len(nodes) :
        nodes[j].ipaddr = nodes[k].ipaddr => j = k

\* C27: an AddProof call for the height the previous AddProof call carried
\* leaves the node list and every score as they were.
C27_ProofScoredOnce ==
    [][(lastOp.op = "AddProof" /\ lastOp'.op = "AddProof" /\ lastOp'.height = lastOp.height)
            => nodes' = nodes]_vars

\* C28: every score lies in 0..100.
C28_HealthInRange ==
    \A k \in 1..Len(nodes) : nodes[k].health >= 0 /\ nodes[k].health <= 100

\* After an AddProof call one node stands at the cap and another at the floor.
C28_Witness ==
    /\ lastOp.op = "AddProof"
    /\ \E j \in 1..Len(nodes) : nodes[j].health = 100
    /\ \E k \in 1..Len(nodes) : nodes[k].health = 0

\* The scoring of the blocks above nLastPoWBlock, in height order, on an
\* empty list.
RECURSIVE FoldProofs(_, _, _)
FoldProofs(ns, c, height) ==
    IF height > Len(c) THEN ns ELSE FoldProofs(ApplyProof(ns, c[height]), c, height + 1)

\* C29: after Init the node list is the scoring of every block above
\* nLastPoWBlock applied to an empty list, whatever the state before Init.
C29_InitRebuildsFromChain ==
    lastOp.op = "Init" => nodes = FoldProofs(<<>>, activeChain, nLastPoWBlock + 1)

====
